---- MODULE Spec2Model ----
(***************************************************************************)
(* Model of the weather_art_project animation programs:                    *)
(*   kandinsky_air_art.py       (variant "abstract", class KandinskyAirArt) *)
(*   beijing_air_quality_art.py (variant "station", BeijingAirQualityArt)   *)
(*                                                                         *)
(* Real-valued quantities (concentrations, speeds, degrees, plot           *)
(* coordinates, sizes) are held in thousandths: 35000 stands for 35.0.     *)
(* A missing timestamp cell (NaN / NaT in the DataFrame) is the value NaT; *)
(* it compares unequal to everything, itself included, as in pandas.       *)
(***************************************************************************)
EXTENDS Integers, Sequences, FiniteSets, TLC

VARIABLES
    variant,       \* which program runs: "abstract" or "station"
    source,        \* what load_data will deliver: [loader, rows]
    data,          \* self.data: None or DataFrame(rows)
    state,         \* scheduler state: "Idle", "Running", "Stopped"
    step,          \* number of ticks fired so far (FuncAnimation frame feed)
    current_time,  \* reference timestamp of the last tick
    frame,         \* primitives added to the axes by the last tick
    facecolor,     \* background colour of the axes
    emitted,       \* reference timestamps of all ticks so far, in order
    figureOpen,    \* the matplotlib figure (renderer resource) is alive
    reported,      \* last console report: "none", "failure", "stopped", "traceback"
    probe          \* harness of the pure functions: the last applications

vars == <<variant, source, data, state, step, current_time, frame, facecolor,
          emitted, figureOpen, reported, probe>>

progVars == <<variant, source, data, state, step, current_time, frame,
              facecolor, emitted, figureOpen, reported>>

----------------------------------------------------------------------------
(* Bounds of the model *)

MaxLen == 3     \* longest record store
MaxTS == 2      \* timestamps range over 1..MaxTS (and NaT)
MaxStep == 4    \* ticks fired per run
MaxPM == 52     \* classifier harness: PM2.5 values up to 5 * MaxPM are tried

\* timestamps proper are 1..MaxTS; a missing timestamp cell is one more value
NaT == MaxTS + 1
\* self.data before load_data has run
None == [isNone |-> TRUE, rows |-> <<>>]
DataFrame(rows) == [isNone |-> FALSE, rows |-> rows]

----------------------------------------------------------------------------
(* Arithmetic helpers standing for Python's max/min and numpy's mean/cos/sin *)

Max(a, b) == IF a >= b THEN a ELSE b
Min(a, b) == IF a <= b THEN a ELSE b

RECURSIVE Sum(_)
Sum(s) == IF s = <<>> THEN 0 ELSE Head(s) + Sum(Tail(s))

Column(rows, f) == [i \in 1..Len(rows) |-> rows[i][f]]

\* Series.mean() of a non-empty column, in thousandths
Mean(rows, f) == Sum(Column(rows, f)) \div Len(rows)

CosTable == <<1000, 966, 866, 707, 500, 259, 0, -259, -500, -707, -866, -966,
              -1000, -966, -866, -707, -500, -259, 0, 259, 500, 707, 866, 966>>
SinTable == <<0, 259, 500, 707, 866, 966, 1000, 966, 866, 707, 500, 259,
              0, -259, -500, -707, -866, -966, -1000, -966, -866, -707, -500, -259>>

\* np.cos(np.radians(d)), np.sin(np.radians(d)) for d in thousandths of a
\* degree, tabulated every 15 degrees; results in thousandths
CosDeg(d) == CosTable[((d \div 15000) % 24) + 1]
SinDeg(d) == SinTable[((d \div 15000) % 24) + 1]

\* np.cos(2*pi*i/sides), np.sin(2*pi*i/sides) for sides in 5..9, thousandths
PolyCos == [n \in 5..9 |->
    CASE n = 5 -> <<1000, 309, -809, -809, 309>>
      [] n = 6 -> <<1000, 500, -500, -1000, -500, 500>>
      [] n = 7 -> <<1000, 623, -223, -901, -901, -223, 623>>
      [] n = 8 -> <<1000, 707, 0, -707, -1000, -707, 0, 707>>
      [] n = 9 -> <<1000, 766, 174, -500, -940, -940, -500, 174, 766>>]
PolySin == [n \in 5..9 |->
    CASE n = 5 -> <<0, 951, 588, -588, -951>>
      [] n = 6 -> <<0, 866, 866, 0, -866, -866>>
      [] n = 7 -> <<0, 782, 975, 434, -434, -975, -782>>
      [] n = 8 -> <<0, 707, 1000, 707, 0, -707, -1000, -707>>
      [] n = 9 -> <<0, 643, 985, 866, 342, -342, -866, -985, -643>>]

\* product of two thousandths, in thousandths
Mul(a, b) == (a * b) \div 1000

----------------------------------------------------------------------------
(* The random module.  Every tick draws from a fresh stream, identified by *)
(* rng; call j made while handling the k-th record of the slice yields     *)
(* the fraction Frac(rng, k, j) of its range.                              *)

Seeds == 0..3

Frac(rng, k, j) == ((rng + k + j) % 2) * 250

\* random.uniform(a, b)
Uniform(a, b, rng, k, j) == a + Mul(b - a, Frac(rng, k, j))

\* random.randint(a, b)
RandInt(a, b, rng, k) == a + ((rng + k) % (b - a + 1))

----------------------------------------------------------------------------
(* Records and the record stores the runs are tried on *)

Default == [datetime |-> 1, station |-> "Dongsi",
            PM25 |-> 40000, SO2 |-> 20000, NO2 |-> 40000, CO |-> 2000,
            O3 |-> 40000, TEMP |-> 15000, DEWP |-> 10000,
            WSPM |-> 1000, wd |-> 0]

Timestamps == (1..MaxTS) \cup {NaT}

TimeRecs == {[Default EXCEPT !.datetime = t] : t \in Timestamps}

WindRecs == {[Default EXCEPT !.WSPM = w[1], !.wd = w[2]] :
                w \in {<<0, 0>>, <<2000, 180000>>, <<2001, 0>>, <<3000, 180000>>,
                       <<7000, 0>>, <<12000, 180000>>}}

OzoneRecs == {[Default EXCEPT !.O3 = o] :
                o \in {40000, 50000, 50001, 80000, 150000, 260000}}

TriRecs == {[Default EXCEPT !.SO2 = v[1], !.TEMP = v[2]] :
                v \in {<<3000, 15000>>, <<30000, -20000>>, <<30000, -30000>>,
                       <<90000, 25000>>, <<45000, 20000>>}}

PMRecs == {[Default EXCEPT !.PM25 = p] :
                p \in {10000, 50000, 90000, 100000, 150000, 200000}}

MixedRecs == {[Default EXCEPT !.datetime = v[1], !.WSPM = v[2], !.O3 = v[3]] :
                v \in {<<1, 1000, 40000>>, <<1, 5000, 80000>>,
                       <<2, 3000, 40000>>, <<2, 2000, 120000>>}}

DewRecs == {[Default EXCEPT !.DEWP = h] :
                h \in {-25000, 10000, 20000, 50000, 80000, 130000}}

\* stations with and without an entry in the station layout
StationRecs == {[Default EXCEPT !.station = v[1], !.WSPM = v[2], !.PM25 = v[3]] :
                v \in {<<"Dongsi", 3500, 40000>>, <<"Tiantan", 1000, 120000>>,
                       <<"Foo", 3500, 80000>>, <<"Foo", 1000, 40000>>}}

Families == {TimeRecs, WindRecs, OzoneRecs, TriRecs, PMRecs, MixedRecs, DewRecs,
             StationRecs}

SeqsUpTo(S, n) == UNION {[1..k -> S] : k \in 0..n}

\* what a data file may hold
Stores == UNION {SeqsUpTo(F, MaxLen) : F \in Families}

\* what generate_mock_data may deliver: stations of self.stations, hour after
\* hour, wind speed at least 3, DEWP = TEMP - 5
MockRecs == {[Default EXCEPT !.datetime = v[1], !.station = v[2], !.PM25 = v[3],
                             !.WSPM = 3500] :
                v \in (1..MaxTS) \X {"Dongsi", "Tiantan"} \X {40000, 120000}}

MockStores ==
    {r \in SeqsUpTo(MockRecs, MaxLen) :
        /\ Len(r) >= 1
        /\ r[1].datetime = 1
        /\ \A i \in 1..(Len(r) - 1) :
              r[i + 1].datetime \in {r[i].datetime, r[i].datetime + 1}}

\* pd.read_csv leaves the datetime column as text (or NaN); the generator
\* stores datetime objects
Sources == {[loader |-> "csv", rows |-> r] : r \in Stores}
           \cup {[loader |-> "mock", rows |-> r] : r \in MockStores}

----------------------------------------------------------------------------
(* Series.unique(): the distinct values in order of first appearance;      *)
(* all missing cells count as one value                                    *)

RECURSIVE Unique(_)
Unique(s) ==
    IF s = <<>> THEN <<>>
    ELSE LET u == Unique(SubSeq(s, 1, Len(s) - 1))
             x == s[Len(s)]
         IN IF \E i \in 1..Len(u) : u[i] = x THEN u ELSE Append(u, x)

\* elementwise == of the datetime column against the reference timestamp,
\* then the boolean-mask selection
Slice(rows, t) ==
    LET Same(r) == r.datetime # NaT /\ t # NaT /\ r.datetime = t
    IN SelectSeq(rows, Same)

----------------------------------------------------------------------------
(* KandinskyAirArt: palette and the five generation rules *)

kandinsky_colors ==
    [primary   |-> <<"#FF6B6B", "#4ECDC4", "#45B7D1", "#96CEB4", "#FFEAA7", "#DDA0DD">>,
     secondary |-> <<"#FF8E53", "#6C5CE7", "#A29BFE", "#FD79A8", "#FDCB6E", "#6C5CE7">>,
     accent    |-> <<"#E17055", "#00B894", "#0984E3", "#00CEC9", "#FDCB6E", "#E84393">>,
     neutral   |-> <<"#2D3436", "#636E72", "#74B9FF", "#81ECEC", "#FAB1A0", "#FF7675">>]

get_kandinsky_color(value, color_type) ==
    LET colors == kandinsky_colors[color_type]
    IN IF value < 50000 THEN colors[1]
       ELSE IF value < 100000 THEN colors[2]
       ELSE IF value < 150000 THEN colors[3]
       ELSE IF value < 200000 THEN colors[4]
       ELSE IF value < 250000 THEN colors[5]
       ELSE colors[6]

\* one circle per record
Circle(row, rng, k) ==
    [x |-> Uniform(-8000, 8000, rng, k, 1) + Mul(CosDeg(row.wd), 500),
     y |-> Uniform(-8000, 8000, rng, k, 2) + Mul(SinDeg(row.wd), 500),
     radius |-> Max(500, Min(3000, row.PM25 \div 50)),
     color |-> get_kandinsky_color(row.PM25, "primary"),
     alpha |-> Uniform(400, 800, rng, k, 3),
     rotation |-> Uniform(0, 360000, rng, k, 4)]

\* create_abstract_circles gone wrong: equal records are merged first
create_abstract_circles_merged(rows, rng) ==
    [k \in 1..Len(Unique(rows)) |-> Circle(Unique(rows)[k], rng, k)]

create_abstract_circles(rows, rng) ==
    [k \in 1..Len(rows) |-> Circle(rows[k], rng, k)]

\* temp_factor = (temp + 20) / 40
TempFactor(temp) == (temp + 20000) \div 40

\* size = max(0.3, min(2.0, so2 / 30)), then size * temp_factor
TriangleSize(so2, temp) == Mul(Max(300, Min(2000, so2 \div 30)), TempFactor(temp))

Triangle(row, rng, k) ==
    [x |-> Uniform(-7000, 7000, rng, k, 1),
     y |-> Uniform(-7000, 7000, rng, k, 2),
     size |-> TriangleSize(row.SO2, row.TEMP),
     color |-> get_kandinsky_color(row.SO2, "secondary"),
     alpha |-> Uniform(300, 700, rng, k, 3),
     rotation |-> Uniform(0, 360000, rng, k, 4)]

create_abstract_triangles(rows, rng) ==
    [k \in 1..Len(rows) |-> Triangle(rows[k], rng, k)]

\* RectangleAlpha gone wrong: the clamp forgotten
RectangleAlphaUnclamped(humidity) == humidity \div 100

\* alpha = max(0.2, min(0.8, humidity / 100))
RectangleAlpha(humidity) == Max(200, Min(800, humidity \div 100))

Rectangle(row, rng, k) ==
    [x |-> Uniform(-6000, 6000, rng, k, 1),
     y |-> Uniform(-6000, 6000, rng, k, 2),
     width |-> Max(200, Min(1500, row.NO2 \div 40)),
     height |-> Max(200, Min(1500, row.NO2 \div 40)),
     color |-> get_kandinsky_color(row.NO2, "accent"),
     alpha |-> RectangleAlpha(row.DEWP),
     rotation |-> Uniform(0, 360000, rng, k, 3)]

create_abstract_rectangles(rows, rng) ==
    [k \in 1..Len(rows) |-> Rectangle(rows[k], rng, k)]

\* HasWind gone wrong: >= in place of >
HasWindInclusive(row) == row.WSPM >= 2000

\* if wind_speed > 2
HasWind(row) == row.WSPM > 2000

\* length = max(1.0, min(4.0, wind_speed / 2))
LineLength(wind_speed) == Max(1000, Min(4000, wind_speed \div 2))

\* 'width': max(1, min(5, wind_speed))
LineWidth(wind_speed) == Max(1000, Min(5000, wind_speed))

Line(row, rng, k) ==
    LET length == LineLength(row.WSPM)
        start_x == Uniform(-8000, 8000, rng, k, 1)
        start_y == Uniform(-8000, 8000, rng, k, 2)
    IN [start_x |-> start_x,
        start_y |-> start_y,
        end_x |-> start_x + Mul(CosDeg(row.wd), length),
        end_y |-> start_y + Mul(SinDeg(row.wd), length),
        color |-> get_kandinsky_color(row.CO, "neutral"),
        width |-> LineWidth(row.WSPM),
        alpha |-> Uniform(400, 800, rng, k, 3)]

RECURSIVE LinesFrom(_, _, _)
LinesFrom(rows, rng, k) ==
    IF k > Len(rows) THEN <<>>
    ELSE (IF HasWind(rows[k]) THEN <<Line(rows[k], rng, k)>> ELSE <<>>)
         \o LinesFrom(rows, rng, k + 1)

create_abstract_lines(rows, rng) == LinesFrom(rows, rng, 1)

\* if o3 > 50
HasOzone(row) == row.O3 > 50000

\* Sides gone wrong: the upper end one too far
SidesUpToNine(rng, k) == RandInt(5, 9, rng, k)

\* sides = random.randint(5, 8)
Sides(rng, k) == RandInt(5, 8, rng, k)

\* size = max(0.5, min(2.0, o3 / 100))
PolygonSize(o3) == Max(500, Min(2000, o3 \div 100))

\* vertex i of range(sides): center + size * (cos, sin)(2*pi*i/sides)
Vertex(center_x, center_y, size, i, sides) ==
    <<center_x + Mul(size, PolyCos[sides][i + 1]),
      center_y + Mul(size, PolySin[sides][i + 1])>>

Polygon(row, rng, k) ==
    LET sides == Sides(rng, k)
        size == PolygonSize(row.O3)
        center_x == Uniform(-7000, 7000, rng, k, 1)
        center_y == Uniform(-7000, 7000, rng, k, 2)
    IN [vertices |-> [n \in 1..sides |->
                         Vertex(center_x, center_y, size, n - 1, sides)],
        color |-> get_kandinsky_color(row.O3, "primary"),
        alpha |-> Uniform(300, 600, rng, k, 3),
        rotation |-> Uniform(0, 360000, rng, k, 4)]

RECURSIVE PolygonsFrom(_, _, _)
PolygonsFrom(rows, rng, k) ==
    IF k > Len(rows) THEN <<>>
    ELSE (IF HasOzone(rows[k]) THEN <<Polygon(rows[k], rng, k)>> ELSE <<>>)
         \o PolygonsFrom(rows, rng, k + 1)

create_abstract_polygons(rows, rng) == PolygonsFrom(rows, rng, 1)

\* BackgroundColor gone wrong: <= in place of <
BackgroundColorInclusive(avg_pm25) ==
    IF avg_pm25 <= 50000 THEN "#e5dbc3"
    ELSE IF avg_pm25 <= 100000 THEN "#d4c5a0"
    ELSE IF avg_pm25 <= 150000 THEN "#c3b07d"
    ELSE "#b29b5a"

\* avg_pm25 = data['PM2.5'].mean(), then the four bands
BackgroundColor(avg_pm25) ==
    IF avg_pm25 < 50000 THEN "#e5dbc3"
    ELSE IF avg_pm25 < 100000 THEN "#d4c5a0"
    ELSE IF avg_pm25 < 150000 THEN "#c3b07d"
    ELSE "#b29b5a"

add_background_gradient(rows) == BackgroundColor(Mean(rows, "PM25"))

----------------------------------------------------------------------------
(* KandinskyAirArt: drawing.  Each draw_* call appends patches to the axes *)

\* Rotate gone wrong: a sign slip in the first row of the matrix
RotateSignSlip(v, cx, cy, angle) ==
    <<Mul(v[1] - cx, CosDeg(angle)) + Mul(v[2] - cy, SinDeg(angle)) + cx,
      Mul(v[1] - cx, SinDeg(angle)) + Mul(v[2] - cy, CosDeg(angle)) + cy>>

\* the rotation of one vertex about (cx, cy) by angle (thousandths of a degree)
Rotate(v, cx, cy, angle) ==
    <<Mul(v[1] - cx, CosDeg(angle)) - Mul(v[2] - cy, SinDeg(angle)) + cx,
      Mul(v[1] - cx, SinDeg(angle)) + Mul(v[2] - cy, CosDeg(angle)) + cy>>

RotateAll(vs, cx, cy, angle) == [n \in 1..Len(vs) |-> Rotate(vs[n], cx, cy, angle)]

RECURSIVE Flatten(_)
Flatten(ss) == IF ss = <<>> THEN <<>> ELSE Head(ss) \o Flatten(Tail(ss))

CirclePatches(c) ==
    << [kind |-> "Circle", xy |-> <<<<c.x, c.y>>>>, radius |-> c.radius,
        color |-> c.color, alpha |-> c.alpha],
       [kind |-> "Circle", xy |-> <<<<c.x, c.y>>>>, radius |-> Mul(c.radius, 600),
        color |-> "white", alpha |-> 300],
       [kind |-> "Circle", xy |-> <<<<c.x, c.y>>>>, radius |-> Mul(c.radius, 1300),
        color |-> c.color, alpha |-> 200] >>

draw_abstract_circles(cs) == Flatten([n \in 1..Len(cs) |-> CirclePatches(cs[n])])

TriangleVertices(t) ==
    << <<t.x, t.y + t.size>>,
       <<t.x - Mul(t.size, 866), t.y - Mul(t.size, 500)>>,
       <<t.x + Mul(t.size, 866), t.y - Mul(t.size, 500)>> >>

TrianglePatch(t) ==
    [kind |-> "Polygon", xy |-> RotateAll(TriangleVertices(t), t.x, t.y, t.rotation),
     radius |-> 0, color |-> t.color, alpha |-> t.alpha]

draw_abstract_triangles(ts) == [n \in 1..Len(ts) |-> TrianglePatch(ts[n])]

RectangleVertices(r) ==
    << <<r.x - r.width \div 2, r.y - r.height \div 2>>,
       <<r.x + r.width \div 2, r.y - r.height \div 2>>,
       <<r.x + r.width \div 2, r.y + r.height \div 2>>,
       <<r.x - r.width \div 2, r.y + r.height \div 2>> >>

RectanglePatch(r) ==
    [kind |-> "Polygon", xy |-> RotateAll(RectangleVertices(r), r.x, r.y, r.rotation),
     radius |-> 0, color |-> r.color, alpha |-> r.alpha]

draw_abstract_rectangles(rs) == [n \in 1..Len(rs) |-> RectanglePatch(rs[n])]

LinePatch(l) ==
    [kind |-> "Line", xy |-> << <<l.start_x, l.start_y>>, <<l.end_x, l.end_y>> >>,
     radius |-> l.width, color |-> l.color, alpha |-> l.alpha]

draw_abstract_lines(ls) == [n \in 1..Len(ls) |-> LinePatch(ls[n])]

\* center_x, center_y: the mean of the stored vertices
Centroid(vs) ==
    <<Sum([n \in 1..Len(vs) |-> vs[n][1]]) \div Len(vs),
      Sum([n \in 1..Len(vs) |-> vs[n][2]]) \div Len(vs)>>

PolygonPatch(p) ==
    LET c == Centroid(p.vertices)
    IN [kind |-> "Polygon", xy |-> RotateAll(p.vertices, c[1], c[2], p.rotation),
        radius |-> 0, color |-> p.color, alpha |-> p.alpha]

draw_abstract_polygons(ps) == [n \in 1..Len(ps) |-> PolygonPatch(ps[n])]

----------------------------------------------------------------------------
(* The frame: what one call of the animation callback leaves on the axes *)

EmptyFrame ==
    [circles |-> <<>>, triangles |-> <<>>, rectangles |-> <<>>, lines |-> <<>>,
     polygons |-> <<>>, patches |-> <<>>, markers |-> <<>>, flow |-> <<>>,
     title |-> <<>>, legend |-> <<>>, statistics |-> <<>>]

\* the facecolor setup_plot() sets
DefaultFacecolor(v) == IF v = "abstract" THEN "#e5dbc3" ELSE "#1a1a1a"

\* the body of create_abstract_visualization after the empty-slice check
AbstractFrame(rows, rng) ==
    LET circles == create_abstract_circles(rows, rng)
        triangles == create_abstract_triangles(rows, rng)
        rectangles == create_abstract_rectangles(rows, rng)
        lines == create_abstract_lines(rows, rng)
        polygons == create_abstract_polygons(rows, rng)
    IN [EmptyFrame EXCEPT
          !.circles = circles, !.triangles = triangles,
          !.rectangles = rectangles, !.lines = lines, !.polygons = polygons,
          !.patches = draw_abstract_circles(circles)
                      \o draw_abstract_triangles(triangles)
                      \o draw_abstract_rectangles(rectangles)
                      \o draw_abstract_lines(lines)
                      \o draw_abstract_polygons(polygons)]

----------------------------------------------------------------------------
(* BeijingAirQualityArt: classifier, station layout and overlays *)

\* the six level names of the source, in order, transliterated to ASCII
Levels == <<"Excellent", "Good", "LightPollution", "ModeratePollution", "HeavyPollution", "SeverePollution">>

\* self.aqi_colors, a dict in insertion order: level -> colour
aqi_colors ==
    << <<"Excellent", "#00E400">>, <<"Good", "#FFFF00">>, <<"LightPollution", "#FF7E00">>,
       <<"ModeratePollution", "#FF0000">>, <<"HeavyPollution", "#8F3F97">>, <<"SeverePollution", "#7E0023">> >>

\* self.aqi_colors.get(level, '#FFFFFF')
AqiColor(level) ==
    IF \E n \in 1..Len(aqi_colors) : aqi_colors[n][1] = level
    THEN aqi_colors[CHOOSE n \in 1..Len(aqi_colors) : aqi_colors[n][1] = level][2]
    ELSE "#FFFFFF"

\* get_aqi_level gone wrong: < in place of <=
get_aqi_level_strict(pm25) ==
    IF pm25 < 35000 THEN "Excellent"
    ELSE IF pm25 < 75000 THEN "Good"
    ELSE IF pm25 < 115000 THEN "LightPollution"
    ELSE IF pm25 < 150000 THEN "ModeratePollution"
    ELSE IF pm25 < 250000 THEN "HeavyPollution"
    ELSE "SeverePollution"

get_aqi_level(pm25) ==
    IF pm25 <= 35000 THEN "Excellent"
    ELSE IF pm25 <= 75000 THEN "Good"
    ELSE IF pm25 <= 115000 THEN "LightPollution"
    ELSE IF pm25 <= 150000 THEN "ModeratePollution"
    ELSE IF pm25 <= 250000 THEN "HeavyPollution"
    ELSE "SeverePollution"

\* create_station_layout(): station -> (x, y), with station[:4] as its label
station_positions ==
    { <<"Aotizhongxin", 2000, 6000, "Aoti">>, <<"Changping", 1000, 7000, "Chan">>,
      <<"Dingling", 500, 6500, "Ding">>, <<"Dongsi", 4000, 5000, "Dong">>,
      <<"Guanyuan", 3000, 4000, "Guan">>, <<"Gucheng", 2000, 3000, "Guch">>,
      <<"Huairou", 1000, 5000, "Huai">>, <<"Nongzhanguan", 5000, 4000, "Nong">>,
      <<"Shunyi", 6000, 6000, "Shun">>, <<"Tiantan", 4000, 3000, "Tian">>,
      <<"Wanliu", 3000, 2000, "Wanl">>, <<"Wanshouxigong", 2000, 1000, "Wans">> }

\* if station in station_positions
HasPosition(station) == \E p \in station_positions : p[1] = station

Position(station) == CHOOSE p \in station_positions : p[1] = station

\* f'{v:.0f}' and f'{v:.1f}': round half to even, to units / tenths
RoundTo(v, unit) ==
    LET q == v \div unit
        r == v % unit
    IN IF 2 * r < unit THEN q * unit
       ELSE IF 2 * r > unit THEN (q + 1) * unit
       ELSE IF q % 2 = 0 THEN q * unit ELSE (q + 1) * unit

Marker(row) ==
    LET p == Position(row.station)
    IN [x |-> p[2], y |-> p[3],
        radius |-> Max(300, Min(2000, row.PM25 \div 100)),
        color |-> AqiColor(get_aqi_level(row.PM25)),
        alpha |-> 800,
        label |-> p[4],
        value |-> RoundTo(row.PM25, 1000)]

RECURSIVE MarkersFrom(_, _)
MarkersFrom(rows, k) ==
    IF k > Len(rows) THEN <<>>
    ELSE (IF HasPosition(rows[k].station) THEN <<Marker(rows[k])>> ELSE <<>>)
         \o MarkersFrom(rows, k + 1)

\* draw_pollutant_flow: one arrow from (5, 4) when the mean wind speed exceeds 1
draw_pollutant_flow(rows) ==
    LET avg_wind_speed == Mean(rows, "WSPM")
        avg_wind_direction == Mean(rows, "wd")
    IN IF avg_wind_speed > 1000
       THEN << [x |-> 5000, y |-> 4000,
                dx |-> Mul(Mul(CosDeg(avg_wind_direction), avg_wind_speed), 300),
                dy |-> Mul(Mul(SinDeg(avg_wind_direction), avg_wind_speed), 300),
                direction |-> RoundTo(avg_wind_direction, 1000),
                speed |-> RoundTo(avg_wind_speed, 100)] >>
       ELSE <<>>

\* add_legend: one entry per level, 0.25 apart below (0.5, 7.5)
add_legend ==
    [n \in 1..Len(aqi_colors) |->
        [level |-> aqi_colors[n][1], color |-> aqi_colors[n][2],
         y |-> 7500 - (300 + 250 * (n - 1))]]

RECURSIVE SeqMax(_)
SeqMax(s) == IF Len(s) = 1 THEN s[1] ELSE Max(Head(s), SeqMax(Tail(s)))
RECURSIVE SeqMin(_)
SeqMin(s) == IF Len(s) = 1 THEN s[1] ELSE Min(Head(s), SeqMin(Tail(s)))

add_statistics(rows) ==
    [avg_pm25 |-> RoundTo(Mean(rows, "PM25"), 100),
     max_pm25 |-> RoundTo(SeqMax(Column(rows, "PM25")), 100),
     min_pm25 |-> RoundTo(SeqMin(Column(rows, "PM25")), 100),
     avg_temp |-> RoundTo(Mean(rows, "TEMP"), 100),
     avg_humidity |-> RoundTo(Mean(rows, "DEWP"), 100)]

\* the body of create_pollutant_visualization after the empty-slice check
StationFrame(rows, t) ==
    [EmptyFrame EXCEPT
       !.markers = MarkersFrom(rows, 1),
       !.flow = draw_pollutant_flow(rows),
       !.title = <<t>>,
       !.legend = add_legend,
       !.statistics = <<add_statistics(rows)>>]

\* create_pollutant_visualization when current_time.strftime raises
\* AttributeError: the markers and the flow arrow are on the axes, the title,
\* the legend and the statistics are never reached
StationFrameUntilTitle(rows) ==
    [EmptyFrame EXCEPT
       !.markers = MarkersFrom(rows, 1),
       !.flow = draw_pollutant_flow(rows)]

----------------------------------------------------------------------------
(* The programs' state and steps *)

NoProbe == [v |-> 0, level |-> "none", color |-> "none"]

\* __init__: no data yet, a figure exists and setup_plot() has run
InitProgram ==
    /\ data = None
    /\ state = "Idle"
    /\ step = 0
    /\ current_time = NaT
    /\ frame = EmptyFrame
    /\ facecolor = DefaultFacecolor(variant)
    /\ emitted = <<>>
    /\ figureOpen = TRUE
    /\ reported = "none"

Init ==
    /\ variant \in {"abstract", "station"}
    /\ source \in Sources
    /\ InitProgram
    /\ probe = [prev |-> NoProbe, cur |-> NoProbe]

\* Usable gone wrong: only the None test, the .empty test forgotten
UsableNotNone(d) == ~d.isNone

\* the negation of: self.data is None or self.data.empty
Usable(d) == ~(d.isNone \/ Len(d.rows) = 0)

\* len(self.data['datetime'].unique())
FrameCount(d) == Len(Unique(Column(d.rows, "datetime")))

\* ReferenceTime gone wrong: the loop runs over the rows, not over the
\* distinct timestamps
ReferenceTimeByRow(d, s) == d.rows[(s % Len(d.rows)) + 1].datetime

\* ReferenceTime gone wrong: the timestamp is counted up from the first hour
\* instead of being read from the store
ReferenceTimeCounted(d, s) == 1 + (s % FrameCount(d))

\* the reference timestamp of tick number s (s = 0, 1, ...): FuncAnimation
\* feeds the callback frame = s mod frames, and the callback takes
\* self.data['datetime'].iloc[frame % len(self.data['datetime'].unique())]
ReferenceTime(d, s) ==
    LET frames == FrameCount(d)
        f == s % frames
    IN d.rows[(f % FrameCount(d)) + 1].datetime

\* ClearedFrame gone wrong: the axes are not cleared
StaleFrame(old) == old

\* ax.clear(): whatever the last frame drew is gone
ClearedFrame(old) == EmptyFrame

\* Ticking gone wrong: the timer keeps firing after the loop was left
TickingAfterStop == state # "Idle"

\* the callback fires only while plt.show() runs the event loop
Ticking == state = "Running"

\* start_animation up to the creation of the animation: load the data,
\* give up on an unusable store, otherwise hand the callback to FuncAnimation
Start ==
    /\ state = "Idle"
    /\ data' = DataFrame(source.rows)
    /\ IF Usable(data')
       THEN state' = "Running" /\ reported' = reported
       ELSE state' = "Stopped" /\ reported' = "failure"
    /\ UNCHANGED <<variant, source, step, current_time, frame, facecolor,
                   emitted, figureOpen, probe>>

\* current_time.strftime exists: the timestamps are datetime objects
HasStrftime == source.loader = "mock"

\* one call of the animation callback; FuncAnimation feeds it the frames
\* range(FrameCount) over and over.  An exception leaving the callback is
\* printed by the GUI event loop, which then goes on firing the timer or
\* not, depending on the backend.
Tick ==
    /\ Ticking
    /\ step < MaxStep
    /\ FrameCount(data) > 0
    /\ \E rng \in Seeds, goesOn \in BOOLEAN :
         LET t == ReferenceTime(data, step)
             current_data == Slice(data.rows, t)
             raises == variant = "station" /\ current_data # <<>> /\ ~HasStrftime
         IN /\ current_time' = t
            /\ emitted' = Append(emitted, t)
            /\ IF current_data = <<>>
               THEN /\ frame' = ClearedFrame(frame)
                    /\ facecolor' = DefaultFacecolor(variant)
               ELSE IF variant = "abstract"
               THEN /\ frame' = AbstractFrame(current_data, rng)
                    /\ facecolor' = add_background_gradient(current_data)
               ELSE /\ frame' = IF raises THEN StationFrameUntilTitle(current_data)
                                          ELSE StationFrame(current_data, t)
                    /\ facecolor' = DefaultFacecolor(variant)
            /\ IF raises
               THEN /\ reported' = "traceback"
                    /\ state' = IF goesOn THEN state ELSE "Stopped"
               ELSE UNCHANGED <<state, reported>>
    /\ step' = step + 1
    /\ UNCHANGED <<variant, source, data, figureOpen, probe>>

\* KeyboardInterrupt out of plt.show(): report, plt.close(), return
Cancel ==
    /\ state = "Running"
    /\ state' = "Stopped"
    /\ reported' = "stopped"
    /\ figureOpen' = FALSE
    /\ UNCHANGED <<variant, source, data, step, current_time, frame, facecolor,
                   emitted, probe>>

\* the window is closed: plt.show() returns and start_animation with it
CloseWindow ==
    /\ state = "Running"
    /\ state' = "Stopped"
    /\ figureOpen' = FALSE
    /\ UNCHANGED <<variant, source, data, step, current_time, frame, facecolor,
                   emitted, reported, probe>>

Next == Start \/ Tick \/ Cancel \/ CloseWindow

Spec == Init /\ [][Next]_vars

----------------------------------------------------------------------------
(* The classifier tried on its own: get_aqi_level and the colour bound to  *)
(* its result, applied to one value after another                          *)

PMDomain == {5000 * k : k \in (-1)..MaxPM}
            \cup {b + d : b \in {35000, 75000, 115000, 150000, 250000}, d \in {-1, 1}}

InitClassifier ==
    /\ variant = "station"
    /\ source = [loader |-> "csv", rows |-> <<>>]
    /\ InitProgram
    /\ probe = [prev |-> NoProbe, cur |-> NoProbe]

Classified(v) ==
    [v |-> v, level |-> get_aqi_level(v), color |-> AqiColor(get_aqi_level(v))]

Classify ==
    /\ \E v \in PMDomain : probe' = [prev |-> probe.cur, cur |-> Classified(v)]
    /\ UNCHANGED progVars

NextClassifier == Classify

SpecClassifier == InitClassifier /\ [][NextClassifier]_vars

----------------------------------------------------------------------------
(* The rotation tried on its own: the vertex sets the draw_* methods build *)
(* and the centers they rotate about, turned by one angle or by quarter    *)
(* turns in succession                                                     *)

Shapes ==
    {[vs |-> TriangleVertices([x |-> c[1], y |-> c[2], size |-> z]), c |-> c] :
        c \in {<<0, 0>>, <<-3500, 7000>>}, z \in {300, 1000, 1950}}
    \cup {[vs |-> RectangleVertices([x |-> c[1], y |-> c[2], width |-> w, height |-> w]),
           c |-> c] :
        c \in {<<0, 0>>, <<6000, -3000>>}, w \in {200, 875, 1500}}
    \cup {[vs |-> [n \in 1..k |-> Vertex(-7000, 0, z, n - 1, k)],
           c |-> Centroid([n \in 1..k |-> Vertex(-7000, 0, z, n - 1, k)])] :
        k \in 5..8, z \in {500, 1200, 2000}}

\* the angles CosDeg and SinDeg tabulate
Angles == {15000 * a : a \in 0..23}

InitRotation ==
    /\ variant = "abstract"
    /\ source = [loader |-> "csv", rows |-> <<>>]
    /\ InitProgram
    /\ \E sh \in Shapes :
          probe = [orig |-> sh.vs, center |-> sh.c, cur |-> sh.vs,
                   how |-> "none", turns |-> 0, angle |-> 0]

\* the stored vertices turned once by some angle
RotateOnce ==
    /\ \E a \in Angles :
          probe' = [probe EXCEPT
                      !.cur = RotateAll(probe.orig, probe.center[1], probe.center[2], a),
                      !.how = "once", !.turns = 1, !.angle = a]
    /\ UNCHANGED progVars

\* one more quarter turn of what the last quarter turn gave
QuarterTurn ==
    /\ probe.how \in {"none", "quarters"}
    /\ probe.turns < 4
    /\ probe' = [probe EXCEPT
                   !.cur = RotateAll(probe.cur, probe.center[1], probe.center[2], 90000),
                   !.how = "quarters", !.turns = probe.turns + 1,
                   !.angle = 90000 * (probe.turns + 1)]
    /\ UNCHANGED progVars

NextRotation == RotateOnce \/ QuarterTurn

SpecRotation == InitRotation /\ [][NextRotation]_vars

----------------------------------------------------------------------------
(* Properties *)

\* the ordered list of distinct timestamps of the loaded store
DistinctTimes == Unique(Column(data.rows, "datetime"))

\* the slice the last tick selected
LastSlice == Slice(data.rows, current_time)

Ticked == emitted # <<>>

Clamp(v, lo, hi) == IF v < lo THEN lo ELSE IF v > hi THEN hi ELSE v

\* C1: on every tick, the reference timestamp of tick s (s = 0, 1, ...) is the
\* (s mod N)-th of the ordered distinct timestamps, N being their number.
C1_DistinctInOrder ==
    \A s \in 1..Len(emitted) :
        emitted[s] = DistinctTimes[((s - 1) % Len(DistinctTimes)) + 1]

\* C2: tick 0 uses the first timestamp of the series, and the reference
\* timestamp of tick s+N equals that of tick s, N = number of distinct
\* timestamps.
C2_Periodic ==
    /\ Ticked => emitted[1] = DistinctTimes[1]
    /\ \A s \in 1..Len(emitted) :
          s + Len(DistinctTimes) <= Len(emitted)
              => emitted[s + Len(DistinctTimes)] = emitted[s]

\* a run over a store with repeated timestamps that has gone past one period
C2_Witness ==
    /\ Len(DistinctTimes) >= 2
    /\ Len(data.rows) > Len(DistinctTimes)
    /\ Len(emitted) > Len(DistinctTimes)

\* C3: a start on an empty (or absent) store ends in Stopped with a failure
\* reported; the run is never Running and no tick ever happens in it.
C3_EmptyStoreAborts ==
    (state # "Idle" /\ (data.isNone \/ data.rows = <<>>))
        => /\ state = "Stopped"
           /\ reported = "failure"
           /\ emitted = <<>>
           /\ step = 0
           /\ frame = EmptyFrame

\* a run started on an empty store
C3_Witness ==
    /\ data = DataFrame(<<>>)
    /\ state = "Stopped"
    /\ reported = "failure"

\* C4: a cancellation received in Running leads to Stopped with the figure
\* released, and from Stopped no step changes the state, the step counter or
\* what was emitted and drawn.
C4_StoppedTerminal ==
    [][ /\ (state = "Running" /\ reported' = "stopped")
            => (state' = "Stopped" /\ ~figureOpen')
        /\ state = "Stopped"
            => (state' = "Stopped" /\ step' = step /\ emitted' = emitted
                /\ frame' = frame /\ current_time' = current_time) ]_vars

\* a run cancelled after some ticks
C4_Witness ==
    /\ state = "Stopped"
    /\ reported = "stopped"
    /\ ~figureOpen
    /\ step >= 1
    /\ step < MaxStep

\* position of a level in the order of severity, 0 for anything else
Severity(level) ==
    IF \E n \in 1..Len(Levels) : Levels[n] = level
    THEN CHOOSE n \in 1..Len(Levels) : Levels[n] = level
    ELSE 0

Breakpoints == {35000, 75000, 115000, 150000, 250000}

\* C5: get_aqi_level returns one of the six categories; the category of v is
\* the number of breakpoints 35/75/115/150/250 strictly below v (so it is
\* non-decreasing, changes only at breakpoints, a breakpoint itself belongs to
\* the lower category, and values outside the range fall in the first / last
\* category); and a category always comes with the same colour of aqi_colors.
C5_Classifier ==
    LET p == probe.prev
        c == probe.cur
    IN c.level # "none" =>
        /\ Severity(c.level) \in 1..6
        /\ Severity(c.level) = 1 + Cardinality({b \in Breakpoints : c.v > b})
        /\ c.color # "#FFFFFF"
        /\ p.level # "none" =>
            /\ p.v <= c.v => Severity(p.level) <= Severity(c.level)
            /\ p.level = c.level => p.color = c.color
            /\ Severity(p.level) # Severity(c.level)
                  => \E b \in Breakpoints : (p.v <= b /\ b < c.v) \/ (c.v <= b /\ b < p.v)

\* a breakpoint and the value just above it, classified one after the other
C5_Witness ==
    /\ probe.prev.level = "Good"
    /\ probe.prev.v = 75000
    /\ probe.cur.v = 75001
    /\ probe.cur.level = "LightPollution"

Dist2(a, b) == (a[1] - b[1]) * (a[1] - b[1]) + (a[2] - b[2]) * (a[2] - b[2])

\* a squared distance d2 is that of the length len, up to 3 thousandths
Near(d2, len) == (len - 3) * (len - 3) <= d2 /\ d2 <= (len + 3) * (len + 3)

\* C6: in a frame of the abstract variant the lines are exactly those of the
\* slice records with wind_speed > 2, one each and in order; each has
\* width = clamp(wind_speed, 1, 5) and length = clamp(wind_speed / 2, 1, 4).
C6_Lines ==
    (variant = "abstract" /\ Ticked) =>
        LET Windy(r) == r.WSPM > 2000
            windy == SelectSeq(LastSlice, Windy)
        IN /\ Len(frame.lines) = Len(windy)
           /\ \A k \in 1..Len(windy) :
                LET l == frame.lines[k]
                IN /\ l.width = Clamp(windy[k].WSPM, 1000, 5000)
                   /\ Near(Dist2(<<l.start_x, l.start_y>>, <<l.end_x, l.end_y>>),
                           Clamp(windy[k].WSPM \div 2, 1000, 4000))

\* a frame over a slice with a record at wind speed exactly 2 and a windier one
C6_Witness ==
    /\ variant = "abstract"
    /\ Ticked
    /\ \E k \in 1..Len(LastSlice) : LastSlice[k].WSPM = 2000
    /\ Len(frame.lines) >= 1
    /\ Len(frame.lines) < Len(LastSlice)

\* C7: in a frame of the abstract variant the polygons are exactly those of
\* the slice records with O3 > 50; each has 5 to 8 vertices, all at distance
\* radius = clamp(O3 / 100, 0.5, 2.0) from one center, with equal chords
\* between neighbouring vertices (even angular subdivision).
C7_Polygons ==
    (variant = "abstract" /\ Ticked) =>
        LET Rich(r) == r.O3 > 50000
            rich == SelectSeq(LastSlice, Rich)
        IN /\ Len(frame.polygons) = Len(rich)
           /\ \A k \in 1..Len(rich) :
                LET vs == frame.polygons[k].vertices
                    n == Len(vs)
                    radius == Clamp(rich[k].O3 \div 100, 500, 2000)
                    center == <<vs[1][1] - radius, vs[1][2]>>
                    Chord2(i) == Dist2(vs[i], vs[(i % n) + 1])
                IN /\ n \in 5..8
                   /\ \A i \in 1..n : Near(Dist2(vs[i], center), radius)
                   /\ \A i \in 1..n :
                        /\ Chord2(i) - Chord2(1) <= 10 * radius
                        /\ Chord2(1) - Chord2(i) <= 10 * radius

\* a frame with a seven-sided polygon over a slice that also holds a record
\* at O3 exactly 50
C7_Witness ==
    /\ variant = "abstract"
    /\ Ticked
    /\ \E k \in 1..Len(LastSlice) : LastSlice[k].O3 = 50000
    /\ \E k \in 1..Len(frame.polygons) : Len(frame.polygons[k].vertices) = 7

Shades == <<"#e5dbc3", "#d4c5a0", "#c3b07d", "#b29b5a">>

\* C8: the background of a frame of the abstract variant is the shade of the
\* band of the slice's mean PM2.5: < 50, 50 to < 100, 100 to < 150, >= 150,
\* four different shades in this order.
C8_Background ==
    /\ Cardinality({Shades[n] : n \in 1..4}) = 4
    /\ (variant = "abstract" /\ Ticked /\ LastSlice # <<>>) =>
        LET total == Sum(Column(LastSlice, "PM25"))
            n == Len(LastSlice)
            band == 1 + Cardinality({b \in {50000, 100000, 150000} : total >= b * n})
        IN facecolor = Shades[band]

\* a frame over two records of different PM2.5 whose mean is exactly 100
C8_Witness ==
    /\ variant = "abstract"
    /\ Ticked
    /\ Len(LastSlice) = 2
    /\ LastSlice[1].PM25 # LastSlice[2].PM25
    /\ Sum(Column(LastSlice, "PM25")) = 200000
    /\ facecolor = "#c3b07d"

\* C9: a tick whose slice is empty completes and leaves no primitive, no
\* overlay and the default background colour.
C9_EmptySlice ==
    (Ticked /\ LastSlice = <<>>) =>
        /\ frame = EmptyFrame
        /\ facecolor = DefaultFacecolor(variant)
        /\ Len(emitted) = step

\* an empty slice right after a frame that drew something
C9_Witness ==
    /\ Len(emitted) >= 2
    /\ emitted[Len(emitted) - 1] # NaT
    /\ LastSlice = <<>>
    /\ state = "Running"

\* C10: every triangle of a frame has size >= 0.
C10_TriangleSizeNonNegative ==
    \A k \in 1..Len(frame.triangles) : frame.triangles[k].size >= 0

\* every alpha a frame holds: of the primitives, of the drawn patches and of
\* the station markers
FrameAlphas ==
    {frame.circles[k].alpha : k \in 1..Len(frame.circles)}
    \cup {frame.triangles[k].alpha : k \in 1..Len(frame.triangles)}
    \cup {frame.rectangles[k].alpha : k \in 1..Len(frame.rectangles)}
    \cup {frame.lines[k].alpha : k \in 1..Len(frame.lines)}
    \cup {frame.polygons[k].alpha : k \in 1..Len(frame.polygons)}
    \cup {frame.patches[k].alpha : k \in 1..Len(frame.patches)}
    \cup {frame.markers[k].alpha : k \in 1..Len(frame.markers)}

\* C11: every alpha of every frame lies in [0, 1], and the alpha of a
\* rectangle is clamp(DEWP / 100, 0.2, 0.8) of its record, so within
\* [0.2, 0.8] also for a negative DEWP and for one above 100.
C11_Alpha ==
    /\ \A a \in FrameAlphas : 0 <= a /\ a <= 1000
    /\ (variant = "abstract" /\ Ticked) =>
          /\ Len(frame.rectangles) = Len(LastSlice)
          /\ \A k \in 1..Len(frame.rectangles) :
                LET a == frame.rectangles[k].alpha
                IN /\ 200 <= a /\ a <= 800
                   /\ a = Clamp(LastSlice[k].DEWP \div 100, 200, 800)

\* a frame over a record with a negative DEWP and one with DEWP above 100
C11_Witness ==
    /\ variant = "abstract"
    /\ Ticked
    /\ \E k \in 1..Len(LastSlice) : LastSlice[k].DEWP < 0
    /\ \E k \in 1..Len(LastSlice) : LastSlice[k].DEWP > 100000
    /\ Len(frame.rectangles) = Len(LastSlice)

\* the records of the last slice whose station has a layout entry
Placed ==
    LET Known(r) == \E p \in station_positions : p[1] = r.station
    IN SelectSeq(LastSlice, Known)

\* C12: in the station variant, when the slice holds a record whose station
\* has no layout entry, the frame is still completed: the markers are those
\* of the other records, one each at its layout position, and the title, the
\* legend, the statistics and (for a mean wind speed above 1) the wind arrow
\* are on the axes.
C12_UnknownStationSkipped ==
    (variant = "station" /\ Ticked /\ Len(Placed) < Len(LastSlice)) =>
        /\ Len(frame.markers) = Len(Placed)
        /\ \A k \in 1..Len(Placed) :
              \E p \in station_positions :
                  /\ p[1] = Placed[k].station
                  /\ frame.markers[k].x = p[2]
                  /\ frame.markers[k].y = p[3]
        /\ frame.title # <<>>
        /\ frame.legend # <<>>
        /\ frame.statistics # <<>>
        /\ (Sum(Column(LastSlice, "WSPM")) > 1000 * Len(LastSlice)) => frame.flow # <<>>

\* the integer part of the square root of n, for 0 <= n < hi * hi
RECURSIVE RootBetween(_, _, _)
RootBetween(n, lo, hi) ==
    IF hi - lo <= 1 THEN lo
    ELSE LET mid == (lo + hi) \div 2
         IN IF mid * mid <= n THEN RootBetween(n, mid, hi) ELSE RootBetween(n, lo, mid)

Length(d2) == RootBetween(d2, 0, 30000)

\* two squared distances are those of lengths at most 4 thousandths apart
SameLength(d2a, d2b) ==
    /\ Length(d2a) - Length(d2b) <= 4
    /\ Length(d2b) - Length(d2a) <= 4

\* C13: four quarter turns in succession about one center bring every vertex
\* back to where it was, and a turn by any angle keeps every vertex at its
\* distance from the center and every two vertices at their distance from
\* each other.
C13_Rotation ==
    probe.how # "none" =>
        /\ (probe.how = "quarters" /\ probe.turns = 4) => probe.cur = probe.orig
        /\ Len(probe.cur) = Len(probe.orig)
        /\ \A i \in 1..Len(probe.orig) :
              SameLength(Dist2(probe.cur[i], probe.center),
                         Dist2(probe.orig[i], probe.center))
        /\ \A i, j \in 1..Len(probe.orig) :
              SameLength(Dist2(probe.cur[i], probe.cur[j]),
                         Dist2(probe.orig[i], probe.orig[j]))

\* a seven-sided polygon after its fourth quarter turn, the third having
\* left it elsewhere
C13_Witness ==
    /\ probe.how = "quarters"
    /\ probe.turns = 4
    /\ Len(probe.orig) = 7
    /\ probe.cur = probe.orig
    /\ RotateAll(probe.orig, probe.center[1], probe.center[2], 270000) # probe.orig

\* C14: a frame of the abstract variant over a slice of n records holds n
\* circles, n triangles and n rectangles, the k-th of each made from the k-th
\* record (equal records are not merged), and the axes hold, in this order,
\* the patches of the circles (three each), of the triangles, of the
\* rectangles, of the lines and of the polygons, each group in record order.
C14_OncePerRecord ==
    (variant = "abstract" /\ Ticked) =>
        LET n == Len(LastSlice)
            nl == Len(frame.lines)
            np == Len(frame.polygons)
            pt == frame.patches
        IN /\ Len(frame.circles) = n
           /\ Len(frame.triangles) = n
           /\ Len(frame.rectangles) = n
           /\ Len(pt) = 3 * n + n + n + nl + np
           /\ \A k \in 1..n :
                /\ frame.circles[k].radius = Clamp(LastSlice[k].PM25 \div 50, 500, 3000)
                /\ frame.triangles[k].size =
                      (Clamp(LastSlice[k].SO2 \div 30, 300, 2000)
                         * ((LastSlice[k].TEMP + 20000) \div 40)) \div 1000
                /\ frame.rectangles[k].width = Clamp(LastSlice[k].NO2 \div 40, 200, 1500)
                /\ frame.rectangles[k].alpha = Clamp(LastSlice[k].DEWP \div 100, 200, 800)
                /\ \A m \in 1..3 : pt[3 * (k - 1) + m].kind = "Circle"
                /\ pt[3 * (k - 1) + 1].radius = frame.circles[k].radius
                /\ pt[3 * (k - 1) + 1].xy = <<<<frame.circles[k].x, frame.circles[k].y>>>>
                /\ pt[3 * n + k].kind = "Polygon"
                /\ Len(pt[3 * n + k].xy) = 3
                /\ pt[3 * n + k].alpha = frame.triangles[k].alpha
                /\ pt[3 * n + k].color = frame.triangles[k].color
                /\ pt[4 * n + k].kind = "Polygon"
                /\ Len(pt[4 * n + k].xy) = 4
                /\ pt[4 * n + k].alpha = frame.rectangles[k].alpha
           /\ \A k \in 1..nl :
                /\ pt[5 * n + k].kind = "Line"
                /\ pt[5 * n + k].xy[1] = <<frame.lines[k].start_x, frame.lines[k].start_y>>
           /\ \A k \in 1..np :
                /\ pt[5 * n + nl + k].kind = "Polygon"
                /\ Len(pt[5 * n + nl + k].xy) = Len(frame.polygons[k].vertices)

\* a frame over two equal records that also gave lines and polygons
C14_Witness ==
    /\ variant = "abstract"
    /\ Ticked
    /\ Len(LastSlice) = 2
    /\ LastSlice[1] = LastSlice[2]
    /\ Len(frame.circles) = 2
    /\ Len(frame.lines) = 2
    /\ Len(frame.polygons) = 2

\* the reference timestamp of the last tick is a cell of the datetime column
FromStore == \E i \in 1..Len(data.rows) : data.rows[i].datetime = current_time

\* C15 as claimed: in every tick the reference timestamp occurs in the store,
\* so the slice is never empty and the empty-slice branch is never taken.
C15_NeverEmpty ==
    Ticked => (FromStore /\ LastSlice # <<>>)

\* C15 as amended: in every tick the reference timestamp is a cell of the
\* store's datetime column; unless that cell is a missing value the slice
\* holds at least one record and the rules run, and when it is a missing
\* value the slice is empty and the empty-slice branch is taken.
C15_EmptyOnlyWhenMissing ==
    Ticked =>
        /\ FromStore
        /\ current_time # NaT =>
              /\ LastSlice # <<>>
              /\ variant = "abstract" => Len(frame.circles) = Len(LastSlice)
              /\ (variant = "station" /\ HasStrftime) => frame.legend # <<>>
        /\ current_time = NaT => (LastSlice = <<>> /\ frame = EmptyFrame)

\* a run that met a missing timestamp and is now at a proper one
C15_Witness ==
    /\ \E i \in 1..Len(emitted) : emitted[i] = NaT
    /\ current_time # NaT
    /\ LastSlice # <<>>
    /\ frame # EmptyFrame

====
